---- MODULE Spec2Model ----
(***************************************************************************)
(* A model of package kandinsky (src/types.go): Marshal walks a value by   *)
(* reflection and draws it on an SVG canvas.                               *)
(*                                                                         *)
(* Conventions.                                                            *)
(*  - A reflect.Value is a record with a field "kind"; the zero Value      *)
(*    (IsValid() = false) is Invalid.                                      *)
(*  - An int is kept as its 64-bit two's complement bit set (a subset of   *)
(*    0..63, bit 63 the sign), so that the shifts and the negation of      *)
(*    intEncoder act on all 64 positions.                                  *)
(*  - Sizes are float64 in the code.  The model takes sizes that are       *)
(*    multiples of 160, for which every coordinate the leaf encoders       *)
(*    compute is an integer, and keeps a sub-region's translate and scale  *)
(*    as exact fractions.                                                  *)
(*  - The canvas (package gosvg) is append-only: groups and draws only     *)
(*    grow.                                                                *)
(***************************************************************************)
EXTENDS Integers, Sequences, FiniteSets, TLC

\* ------------------------------------------------------------------ bounds

\* Slices of 0..MaxLen elements are among the inputs.
MaxLen == 10

\* Maps of 0..MaxMap entries are among the inputs.
MaxMap == 4

\* Frames the goroutine stack can hold before the runtime ends the process
\* with "fatal error: stack overflow".
StackLimit == 8

\* Goroutines of the concurrent cache specification.
NProcs == 2

\* ------------------------------------------------------- program constants

\* cellSz := sz / 8 and h := sz / 8.0: the grid step of intEncoder and
\* byteEncoder.
GridDiv == 8

\* ------------------------------------------------------------------ values

Invalid == [kind |-> "invalid"]

IntV(b) == [kind |-> "int", bits |-> b]

ByteV(n) == [kind |-> "uint8", u |-> n]

\* A float64 of value q / 4.
FloatV(q) == [kind |-> "float64", q |-> q]

BoolV(b) == [kind |-> "bool", b |-> b]

\* A string is the sequence of its bytes.
StrV(s) == [kind |-> "string", s |-> s]

\* fields: a sequence of [exported |-> BOOLEAN, val |-> value].
StructV(fs) == [kind |-> "struct", fields |-> fs]

SliceV(es) == [kind |-> "slice", elems |-> es]

\* entries: a sequence of <<key, value>>; its order is NOT the iteration
\* order, which MapKeys leaves unspecified.
MapV(es) == [kind |-> "map", entries |-> es]

\* An interface value holding elem (Invalid: the nil interface).
IfaceV(e) == [kind |-> "interface", elem |-> e]

\* A pointer to Heap[a] (0: the nil pointer).
PtrV(a) == [kind |-> "ptr", addr |-> a]

FuncV == [kind |-> "func"]

UintV == [kind |-> "uint"]

ArrayV == [kind |-> "array"]

Pub(v) == [exported |-> TRUE, val |-> v]

Priv(v) == [exported |-> FALSE, val |-> v]

\* ------------------------------------------------------- 64-bit integers

Word == 0 .. 63

Pow2(n) == 2 ^ n

\* The bits of a natural number below 2^31.
Bits(n) == {i \in 0 .. 30 : (n \div Pow2(i)) % 2 = 1}

Min(S) == CHOOSE x \in S : \A y \in S : x <= y

\* -val in two's complement: the lowest set bit stays, the bits above it
\* flip.  Negating 0 gives 0 and negating MinInt64 gives MinInt64.
Negate(b) == IF b = {} THEN {} ELSE {Min(b)} \cup {i \in Word : i > Min(b) /\ i \notin b}

IsNeg(b) == 63 \in b

\* val >> 1 on a signed int: arithmetic, the sign bit is kept.
Shr(b) == {i - 1 : i \in b \ {0}} \cup (IF 63 \in b THEN {63} ELSE {})

\* val % 2 == 1: Go's % takes the sign of the dividend, so an odd negative
\* val gives -1.
OddPositive(b) == 0 \in b /\ ~IsNeg(b)

IntOf(n) == IntV(Bits(n))

NegIntOf(n) == IntV(Negate(Bits(n)))

MinInt64 == IntV({63})

MaxInt64 == IntV(0 .. 62)

\* ------------------------------------------------------------------ errors

Nil == [kind |-> "nil"]

InvalidSizeError == [kind |-> "errorString"]

UnsupportedTypeError(t) == [kind |-> "UnsupportedTypeError", t |-> t]

InvalidValueError(v) == [kind |-> "InvalidValueError", v |-> v]

\* The panic of reflect.Value.Interface on a value read through an
\* unexported field.
ReflectROError == [kind |-> "reflect: unexported field"]

\* ------------------------------------------------------ type descriptors

\* The reflect.Type of a value.  The model's values carry no named types,
\* so a descriptor is [name, kind] with the kind as the name.
TypeOf(v) == [name |-> v.kind, kind |-> v.kind]

IntKinds == {"int", "int8", "int16", "int32", "int64"}

FloatKinds == {"float32", "float64"}

newTypeEncoder(t) ==
    CASE t.kind \in IntKinds      -> [f |-> "intEncoder", err |-> Nil]
      [] t.kind = "uint8"         -> [f |-> "byteEncoder", err |-> Nil]
      [] t.kind \in FloatKinds    -> [f |-> "floatEncoder", err |-> Nil]
      [] t.kind = "bool"          -> [f |-> "boolEncoder", err |-> Nil]
      [] t.kind = "string"        -> [f |-> "stringEncoder", err |-> Nil]
      [] t.kind = "struct"        -> [f |-> "structEncoder", err |-> Nil]
      [] t.kind = "slice"         -> [f |-> "sliceEncoder", err |-> Nil]
      [] t.kind = "map"           -> [f |-> "mapEncoder", err |-> Nil]
      [] t.kind = "interface"     -> [f |-> "ifaceEncoder", err |-> Nil]
      [] t.kind = "ptr"           -> [f |-> "ptrEncoder", err |-> Nil]
      [] OTHER                    -> [f |-> "nil", err |-> UnsupportedTypeError(t)]

\* encoderCache: m is nil until the first insertion makes it.
EmptyMap == [t \in {} |-> "nil"]

CacheZero == [made |-> FALSE, m |-> EmptyMap]

\* encoderCache.m[t]: nil for a missing key and for the nil map.
Lookup(c, t) == IF t \in DOMAIN c.m THEN c.m[t] ELSE "nil"

\* if m == nil { m = make(...) }; m[t] = f
Store(c, t, f) ==
    [made |-> TRUE,
     m |-> [d \in DOMAIN c.m \cup {t} |-> IF d = t THEN f ELSE c.m[d]]]

\* typeEncoder run with no other goroutine in it: [f, err, cache].
typeEncoderSeq(c, t) ==
    LET f == Lookup(c, t)
        r == newTypeEncoder(t)
    IN  IF f # "nil" THEN [f |-> f, err |-> Nil, cache |-> c]
        ELSE IF r.err.kind # "nil" THEN [f |-> "nil", err |-> r.err, cache |-> c]
        ELSE [f |-> r.f, err |-> Nil, cache |-> Store(c, t, r.f)]

\* ------------------------------------------------------------ leaf drawing

\* An encodeState: the group drawn into and the local side length.
EncodeState(g, sz) == [group |-> g, size |-> sz]

Rect(g, x, y, w, h, fill) ==
    [op |-> "rect", group |-> g, x |-> x, y |-> y, w |-> w, h |-> h, fill |-> fill]

\* The circle floatEncoder draws: val = (q/4) * (sz/2).
floatEncoderDraws(e, v) ==
    LET sz   == e.size
        val  == (v.q * sz) \div 8
        red  == val <= 0
    IN  << [op |-> "circle", group |-> e.group, cx |-> sz \div 2, cy |-> sz \div 2,
            r |-> IF red THEN -val ELSE val, fill |-> IF red THEN "red" ELSE "black"] >>

\* The triangle boolEncoder draws; its points are in hundredths of a unit
\* (sinY = 0.866 * h is no integer).
boolEncoderDraws(e, v) ==
    LET sz    == e.size
        h     == (sz * 75)
        sinY  == (866 * h) \div 1000
        x1    == (sz * 125) \div 10
        x2    == sz * 50
        x3    == (sz * 875) \div 10
        up    == x1
        down  == sinY + x1
        hi    == IF v.b THEN up ELSE down
        lo    == IF v.b THEN down ELSE up
    IN  << [op |-> "polygon", group |-> e.group,
            pts |-> << <<x1, lo>>, <<x2, hi>>, <<x3, lo>> >>,
            fill |-> IF v.b THEN "black" ELSE "red"] >>

\* ------------------------------------------------------------- the inputs

\* What the pointers of the inputs point to.  Heap[2] is a record whose
\* field points back at it; Heap[3] an interface holding a pointer to
\* itself; Heap[4] a slice whose element points back at the slice.
Heap ==
    << IntOf(5),
       StructV(<< Pub(IntOf(1)), Pub(PtrV(2)) >>),
       IfaceV(PtrV(3)),
       SliceV(<< PtrV(4) >>),
       StructV(<< Pub(IntOf(3)), Priv(BoolV(TRUE)) >>) >>

\* A pointer's target: the zero Value for the nil pointer.
Deref(v) == IF v.addr = 0 THEN Invalid ELSE Heap[v.addr]

Ints ==
    << IntOf(0), IntOf(5), NegIntOf(5), IntOf(127), IntOf(128), IntOf(255),
       NegIntOf(1234), IntOf(11235813), MaxInt64, MinInt64 >>
    \o [i \in 1 .. 63 |-> IntV({i - 1})]
    \o [i \in 1 .. 63 |-> IntV(Negate({i - 1}))]

Bytes == [n \in 1 .. 256 |-> ByteV(n - 1)]

Scalars ==
    << FloatV(4), FloatV(-2), FloatV(0), FloatV(3), BoolV(TRUE), BoolV(FALSE),
       StrV(<< >>), StrV(<< 72, 105 >>), FuncV, UintV, ArrayV >>

\* The record of cmd/viz (X, Y, Z exported, s not).
DemoStruct ==
    StructV(<< Pub(NegIntOf(1234)), Pub(FloatV(3)), Pub(BoolV(TRUE)), Priv(IntOf(11235813)) >>)

Structs ==
    << StructV(<< >>),
       DemoStruct,
       StructV(<< Priv(IntOf(7)) >>),
       StructV(<< Priv(IntOf(7)), Pub(ByteV(5)) >>),
       StructV(<< Pub(IntOf(1)), Pub(FuncV), Pub(IntOf(2)) >>),
       StructV(<< Pub(IntOf(1)), Pub(IfaceV(Invalid)), Pub(IntOf(2)) >>),
       StructV(<< Pub(IntOf(1)), Priv(IntOf(2)), Pub(IntOf(3)), Priv(IntOf(4)), Pub(IntOf(5)) >>),
       StructV(<< Priv(MapV(<< <<IntOf(1), IntOf(2)>>, <<IntOf(3), IntOf(4)>> >>)) >>),
       StructV(<< Priv(MapV(<< >>)), Pub(StrV(<< 65 >>)) >>) >>

Slices ==
    [k \in 1 .. MaxLen + 1 |-> SliceV([j \in 1 .. k - 1 |-> IntOf(j)])]
    \o << SliceV(<< IfaceV(Invalid) >>),
          SliceV(<< IfaceV(IntOf(5)), IfaceV(Invalid), IfaceV(IntOf(6)) >>),
          SliceV(<< IfaceV(Invalid), IfaceV(FuncV) >>),
          SliceV(<< IfaceV(IntOf(5)), IfaceV(FuncV), IfaceV(IntOf(6)) >>),
          SliceV(<< DemoStruct, DemoStruct >>),
          SliceV(<< SliceV(<< BoolV(TRUE), BoolV(FALSE) >>), SliceV(<< >>) >>),
          SliceV(<< PtrV(0), PtrV(1), PtrV(5) >>) >>

Maps ==
    [k \in 1 .. MaxMap + 1 |-> MapV([j \in 1 .. k - 1 |-> <<IntOf(j), IntOf(j + 8)>>])]
    \o << MapV(<< <<IntOf(1), FuncV>> >>),
          MapV(<< <<IntOf(1), FuncV>>, <<IntOf(2), IntOf(3)>> >>),
          MapV(<< <<IntOf(1), MapV(<< <<IntOf(2), IntOf(3)>>, <<IntOf(4), IntOf(5)>> >>)>>,
                  <<IntOf(6), MapV(<< >>)>> >>) >>

Indirections ==
    << PtrV(0), PtrV(1), PtrV(5), PtrV(2), PtrV(3), PtrV(4) >>

\* The values Marshal is called with; Invalid is reflect.ValueOf(nil).
Inputs == << Invalid >> \o Ints \o Bytes \o Scalars \o Structs \o Slices \o Maps \o Indirections

\* The sizes Marshal is called with.
Sizes == {-160, 0, 160}

\* ------------------------------------------------------------------- state

VARIABLES
    pc,            \* the Marshal call: idle, running, returned, panicked, overflow
    arg,           \* Marshal's arguments [i, size]
    stack,         \* the frames of e.marshal, innermost last
    ret,           \* the error the last finished frame returned
    groups,        \* the canvas: the groups made, in order
    draws,         \* the canvas: the shapes drawn, in order
    out,           \* how the Marshal call ended and with what
    encoderCache,  \* the process-wide cache [made, m]
    gpc,           \* per goroutine: where it is in typeEncoder
    gt,            \* per goroutine: the descriptor it resolves
    gf,            \* per goroutine: its local f
    gout,          \* per goroutine: what its last typeEncoder call returned
    rw             \* encoderCache's RWMutex [readers, writer]

wvars == <<pc, arg, stack, ret, groups, draws, out>>

gvars == <<gpc, gt, gf, gout, rw>>

vars == <<pc, arg, stack, ret, groups, draws, out, encoderCache, gpc, gt, gf, gout, rw>>

Procs == 1 .. NProcs

\* The descriptors the goroutines of the cache specification resolve.
Descriptors ==
    { [name |-> "int", kind |-> "int"],
      [name |-> "[]int", kind |-> "slice"],
      [name |-> "func()", kind |-> "func"] }

NoOutcome == [f |-> "nil", err |-> Nil]

Init ==
    /\ pc = "idle"
    /\ arg = [i |-> Invalid, size |-> 0]
    /\ stack = << >>
    /\ ret = Nil
    /\ groups = << >>
    /\ draws = << >>
    /\ out = [kind |-> "none"]
    /\ encoderCache = CacheZero
    /\ gpc = [p \in Procs |-> "idle"]
    /\ gt = [p \in Procs |-> [name |-> "int", kind |-> "int"]]
    /\ gf = [p \in Procs |-> "nil"]
    /\ gout = [p \in Procs |-> NoOutcome]
    /\ rw = [readers |-> {}, writer |-> 0]

\* ------------------------------------------------------------------ frames

\* A fraction num/den (a float64 the code computes by a division).
Frac(n, d) == [num |-> n, den |-> d]

\* A group of the canvas: its parent and its transform, Translate(tx, ty)
\* then Scale(scale, scale).
Group(parent, kind, tx, ty, scale) ==
    [parent |-> parent, kind |-> kind, tx |-> tx, ty |-> ty, scale |-> scale]

PlainGroup(parent, kind) == Group(parent, kind, Frac(0, 1), Frac(0, 1), Frac(1, 1))

\* One call of e.marshal(v) and of the strategy it ends in: fn is "marshal"
\* until the strategy is resolved; ro says v was read through an unexported
\* field; i, x, y, n, width, g are the locals of the grid encoders; x, y,
\* val, color those of intEncoder; y, uval those of byteEncoder.
NewFrame(v, ro, e) ==
    [fn |-> "marshal", at |-> "entry", v |-> v, ro |-> ro, e |-> e,
     i |-> 0, x |-> 0, y |-> 0, n |-> 0, width |-> 0, g |-> 0,
     val |-> {}, color |-> "black", uval |-> 0]

Top == stack[Len(stack)]

SetTop(f) == [stack EXCEPT ![Len(stack)] = f]

Running(fn, at) == pc = "running" /\ stack # << >> /\ Top.fn = fn /\ Top.at = at

\* The top frame, left as caller, calls callee; the goroutine's stack is
\* finite, and a call that finds no room for the callee's frame ends the
\* process ("fatal error: stack overflow").
CallFrom(caller, callee) ==
    IF Len(stack) < StackLimit
    THEN /\ stack' = Append(SetTop(caller), callee)
         /\ UNCHANGED <<pc, out, ret>>
    ELSE /\ pc' = "overflow"
         /\ out' = [kind |-> "fatal"]
         /\ stack' = SetTop(caller)
         /\ UNCHANGED ret

\* The top frame returns r to its caller.
Return(r) ==
    /\ stack' = SubSeq(stack, 1, Len(stack) - 1)
    /\ ret' = r
    /\ UNCHANGED <<pc, out>>

\* The goroutine panics with val; nothing recovers.
Panic(val) ==
    /\ pc' = "panicked"
    /\ out' = [kind |-> "panic", val |-> val]
    /\ UNCHANGED <<stack, ret>>

\* ----------------------------------------------------------------- Marshal

Marshal ==
    /\ pc = "idle"
    /\ \E k \in 1 .. Len(Inputs), size \in Sizes :
          /\ arg' = [i |-> Inputs[k], size |-> size]
          /\ IF size <= 0
             THEN /\ pc' = "returned"
                  /\ out' = [kind |-> "error", err |-> InvalidSizeError]
                  /\ UNCHANGED <<stack, groups>>
             ELSE /\ pc' = "running"
                  /\ groups' = << PlainGroup(0, "root") >>
                  /\ stack' = << NewFrame(Inputs[k], FALSE, EncodeState(1, size)) >>
                  /\ out' = out
    /\ UNCHANGED <<ret, draws, encoderCache>>
    /\ UNCHANGED gvars

\* e.marshal returned to Marshal: the error, or the rendered document.
MarshalReturn ==
    /\ pc = "running"
    /\ stack = << >>
    /\ pc' = "returned"
    /\ out' = IF ret.kind # "nil"
              THEN [kind |-> "error", err |-> ret]
              ELSE [kind |-> "bytes", doc |-> [groups |-> groups, draws |-> draws]]
    /\ UNCHANGED <<arg, stack, ret, groups, draws, encoderCache>>
    /\ UNCHANGED gvars

\* valueEncoder: [panic, f, err, cache].
valueEncoder(c, v) ==
    IF v.kind = "invalid"
    THEN [panic |-> TRUE, f |-> "nil", err |-> InvalidValueError(v), cache |-> c]
    ELSE LET r == typeEncoderSeq(c, TypeOf(v))
         IN  [panic |-> FALSE, f |-> r.f, err |-> r.err, cache |-> r.cache]

\* encodeState.marshal up to its call of f.
marshal ==
    /\ Running("marshal", "entry")
    /\ LET r == valueEncoder(encoderCache, Top.v)
       IN  /\ encoderCache' = r.cache
           /\ IF r.panic THEN Panic(r.err)
              ELSE IF r.err.kind # "nil" THEN Return(r.err)
              ELSE /\ stack' = SetTop([Top EXCEPT !.fn = r.f, !.at = "call"])
                   /\ UNCHANGED <<pc, out, ret>>
    /\ UNCHANGED <<arg, groups, draws>>
    /\ UNCHANGED gvars

\* A frame whose strategy ends in "return <call>" hands on what the callee
\* returned.
ReturnCallee ==
    /\ pc = "running" /\ stack # << >> /\ Top.at = "ret"
    /\ Return(ret)
    /\ UNCHANGED <<arg, groups, draws, encoderCache>>
    /\ UNCHANGED gvars

\* ------------------------------------------------------------ leaf encoders

Leaf(shapes) ==
    /\ draws' = draws \o shapes
    /\ Return(Nil)
    /\ UNCHANGED <<arg, groups, encoderCache>>
    /\ UNCHANGED gvars

\* intEncoder up to its loops: val, color and the first cell.
intEncoderEnter ==
    /\ Running("intEncoder", "call")
    /\ LET sz     == Top.e.size
           cellSz == sz \div GridDiv
           red    == IsNeg(Top.v.bits) \/ Top.v.bits = {}
       IN  stack' = SetTop([Top EXCEPT !.at = "loop",
                                       !.val = IF red THEN Negate(Top.v.bits) ELSE Top.v.bits,
                                       !.color = IF red THEN "red" ELSE "black",
                                       !.x = sz - cellSz, !.y = sz - cellSz])
    /\ UNCHANGED <<pc, out, ret, arg, groups, draws, encoderCache>>
    /\ UNCHANGED gvars

\* One turn of intEncoder's loops: the end of the outer loop, the end of
\* the inner one (y -= cellSz and x starts over), or the body for (x, y).
intEncoderLoop ==
    /\ Running("intEncoder", "loop")
    /\ LET sz     == Top.e.size
           cellSz == sz \div GridDiv
           blkSz  == (cellSz * 9) \div 10
           margin == cellSz \div 20
           val2   == Shr(Top.val)
       IN  IF ~(Top.y > 0)
           THEN Return(Nil) /\ UNCHANGED draws
           ELSE IF ~(Top.x > 0)
           THEN /\ stack' = SetTop([Top EXCEPT !.x = sz - cellSz, !.y = Top.y - cellSz])
                /\ UNCHANGED <<pc, out, ret, draws>>
           ELSE /\ draws' = IF OddPositive(Top.val)
                            THEN Append(draws, Rect(Top.e.group, Top.x + margin, Top.y - margin,
                                                    blkSz, blkSz, Top.color))
                            ELSE draws
                /\ IF val2 = {}
                   THEN Return(Nil)
                   ELSE /\ stack' = SetTop([Top EXCEPT !.val = val2, !.x = Top.x - cellSz])
                        /\ UNCHANGED <<pc, out, ret>>
    /\ UNCHANGED <<arg, groups, encoderCache>>
    /\ UNCHANGED gvars

\* byteEncoder up to its loop.
byteEncoderEnter ==
    /\ Running("byteEncoder", "call")
    /\ stack' = SetTop([Top EXCEPT !.at = "loop", !.uval = Top.v.u,
                                   !.y = Top.e.size - Top.e.size \div GridDiv])
    /\ UNCHANGED <<pc, out, ret, arg, groups, draws, encoderCache>>
    /\ UNCHANGED gvars

\* One turn of byteEncoder's loop.
byteEncoderLoop ==
    /\ Running("byteEncoder", "loop")
    /\ LET sz     == Top.e.size
           h      == sz \div GridDiv
           blkH   == (h * 8) \div 10
           margin == h \div 10
           val2   == Top.uval \div 2
       IN  IF ~(Top.y > 0)
           THEN Return(Nil) /\ UNCHANGED draws
           ELSE /\ draws' = IF Top.uval % 2 = 1
                            THEN Append(draws, Rect(Top.e.group, margin, Top.y - margin,
                                                    sz - margin, blkH, "black"))
                            ELSE draws
                /\ IF val2 = 0
                   THEN Return(Nil)
                   ELSE /\ stack' = SetTop([Top EXCEPT !.uval = val2, !.y = Top.y - h])
                        /\ UNCHANGED <<pc, out, ret>>
    /\ UNCHANGED <<arg, groups, encoderCache>>
    /\ UNCHANGED gvars

floatEncoder == Running("floatEncoder", "call") /\ Leaf(floatEncoderDraws(Top.e, Top.v))

boolEncoder == Running("boolEncoder", "call") /\ Leaf(boolEncoderDraws(Top.e, Top.v))

\* reflect.ValueOf([]byte(v.String())), handed back to e.marshal.
stringEncoder ==
    /\ Running("stringEncoder", "call")
    /\ LET b == SliceV([j \in 1 .. Len(Top.v.s) |-> ByteV(Top.v.s[j])])
       IN  CallFrom([Top EXCEPT !.at = "ret"], NewFrame(b, FALSE, Top.e))
    /\ UNCHANGED <<arg, groups, draws, encoderCache>>
    /\ UNCHANGED gvars

\* ------------------------------------------------------------- indirection

ifaceEncoder ==
    /\ Running("ifaceEncoder", "call")
    /\ CallFrom([Top EXCEPT !.at = "ret"], NewFrame(Top.v.elem, Top.ro, Top.e))
    /\ UNCHANGED <<arg, groups, draws, encoderCache>>
    /\ UNCHANGED gvars

ptrEncoder ==
    /\ Running("ptrEncoder", "call")
    /\ LET elem == Deref(Top.v)
       IN  IF elem.kind = "invalid" THEN Return(Nil)
           ELSE CallFrom([Top EXCEPT !.at = "ret"], NewFrame(elem, Top.ro, Top.e))
    /\ UNCHANGED <<arg, groups, draws, encoderCache>>
    /\ UNCHANGED gvars

\* ------------------------------------------------------------ grid encoders

\* The largest s with s*s <= n: math.Sqrt rounded down.
FloorSqrt(n) == CHOOSE s \in 0 .. n : s * s <= n /\ (s + 1) * (s + 1) > n

\* The mutant of GridWidth: the square root rounded down.
GridWidthFloor(n) == FloorSqrt(n)

\* int(math.Ceil(math.Sqrt(float64(n))))
GridWidth(n) == IF FloorSqrt(n) * FloorSqrt(n) = n THEN FloorSqrt(n) ELSE FloorSqrt(n) + 1

\* The mutant of Fields: the unexported fields are skipped.
PublicFields(v) == SelectSeq(v.fields, LAMBDA f : f.exported)

\* t.NumField() and v.Field(i): every declared field, exported or not.
Fields(v) == v.fields

\* The children a grid encoder walks, each with its read-only flag:
\* v.Field(i) of a record, v.Index(i) of a sequence.
Children(f) ==
    IF f.fn = "structEncoder"
    THEN [j \in 1 .. Len(Fields(f.v)) |->
             [val |-> Fields(f.v)[j].val, ro |-> f.ro \/ ~Fields(f.v)[j].exported]]
    ELSE [j \in 1 .. Len(f.v.elems) |-> [val |-> f.v.elems[j], ro |-> f.ro]]

\* Up to the loop: the short circuit, or the container group and the locals.
GridEnter ==
    /\ LET n == Len(Children(Top))
       IN  IF n = 0
           THEN Return(Nil) /\ UNCHANGED groups
           ELSE /\ groups' = Append(groups, PlainGroup(Top.e.group, "container"))
                /\ stack' = SetTop([Top EXCEPT !.at = "loop", !.n = n,
                                               !.width = GridWidth(n),
                                               !.g = Len(groups) + 1,
                                               !.i = 0, !.x = 0, !.y = 0])
                /\ UNCHANGED <<pc, out, ret>>
    /\ UNCHANGED <<arg, draws, encoderCache>>
    /\ UNCHANGED gvars

\* The loop test and the body up to enc.marshal(child).
GridLoop ==
    /\ IF Top.i < Top.n
       THEN LET kid == Children(Top)[Top.i + 1]
                sz  == Top.e.size
                s   == Len(groups) + 1
            IN  /\ groups' = Append(groups, Group(Top.g, "cell",
                                                  Frac(Top.x * sz, Top.width),
                                                  Frac(Top.y * sz, Top.width),
                                                  Frac(1, Top.width)))
                /\ CallFrom([Top EXCEPT !.at = "wait"],
                            NewFrame(kid.val, kid.ro, EncodeState(s, sz)))
       ELSE Return(Nil) /\ UNCHANGED groups
    /\ UNCHANGED <<arg, draws, encoderCache>>
    /\ UNCHANGED gvars

\* The body after enc.marshal(child): the error check, x++ and the wrap, i++.
GridNext ==
    /\ IF ret.kind # "nil"
       THEN Return(ret)
       ELSE /\ stack' = SetTop([Top EXCEPT !.at = "loop", !.i = @ + 1,
                                           !.x = IF Top.x + 1 = Top.width THEN 0 ELSE Top.x + 1,
                                           !.y = IF Top.x + 1 = Top.width THEN Top.y + 1 ELSE Top.y])
            /\ UNCHANGED <<pc, out, ret>>
    /\ UNCHANGED <<arg, groups, draws, encoderCache>>
    /\ UNCHANGED gvars

structEncoderEnter == Running("structEncoder", "call") /\ GridEnter

structEncoderLoop == Running("structEncoder", "loop") /\ GridLoop

structEncoderNext == Running("structEncoder", "wait") /\ GridNext

sliceEncoderEnter == Running("sliceEncoder", "call") /\ GridEnter

sliceEncoderLoop == Running("sliceEncoder", "loop") /\ GridLoop

sliceEncoderNext == Running("sliceEncoder", "wait") /\ GridNext

\* ----------------------------------------------------------------- mappings

\* The zero kvPair: four nil interfaces.
ZeroPair == [k1 |-> Invalid, v1 |-> Invalid, k2 |-> Invalid, v2 |-> Invalid]

RECURSIVE PairLoop(_, _, _, _)
\* The range loop of mapEncoder over the entries es left, in iteration order.
PairLoop(es, p, isOdd, kvPairs) ==
    IF es = << >> THEN [p |-> p, isOdd |-> isOdd, kvPairs |-> kvPairs]
    ELSE IF ~isOdd
         THEN PairLoop(Tail(es), [p EXCEPT !.k1 = Head(es)[1], !.v1 = Head(es)[2]], TRUE, kvPairs)
         ELSE LET p2 == [p EXCEPT !.k2 = Head(es)[1], !.v2 = Head(es)[2]]
              IN  PairLoop(Tail(es), p2, FALSE, Append(kvPairs, p2))

\* kvPairs as mapEncoder hands it to sliceEncoder: the loop, then the
\* append under "if !isOdd".
KvPairs(es) ==
    LET r == PairLoop(es, ZeroPair, FALSE, << >>)
    IN  IF ~r.isOdd THEN Append(r.kvPairs, r.p) ELSE r.kvPairs

\* A kvPair as a value: a record of four unexported interface fields.
KvPairV(p) ==
    StructV(<< Priv(IfaceV(p.k1)), Priv(IfaceV(p.v1)), Priv(IfaceV(p.k2)), Priv(IfaceV(p.v2)) >>)

mapEncoder ==
    /\ Running("mapEncoder", "call")
    /\ LET es == Top.v.entries
           m  == Len(es)
       IN  IF m = 0 THEN Return(Nil)
           ELSE IF Top.ro THEN Panic(ReflectROError)
           ELSE \E perm \in Permutations(1 .. m) :
                   LET keys    == [j \in 1 .. m |-> es[perm[j]]]
                       kvPairs == KvPairs(keys)
                       v       == SliceV([j \in 1 .. Len(kvPairs) |-> KvPairV(kvPairs[j])])
                   IN  CallFrom([Top EXCEPT !.at = "ret"],
                                [NewFrame(v, FALSE, Top.e) EXCEPT !.fn = "sliceEncoder", !.at = "call"])
    /\ UNCHANGED <<arg, groups, draws, encoderCache>>
    /\ UNCHANGED gvars

\* ------------------------------------------------------- the specification

Next ==
    \/ Marshal
    \/ MarshalReturn
    \/ marshal
    \/ ReturnCallee
    \/ intEncoderEnter
    \/ intEncoderLoop
    \/ byteEncoderEnter
    \/ byteEncoderLoop
    \/ floatEncoder
    \/ boolEncoder
    \/ stringEncoder
    \/ ifaceEncoder
    \/ ptrEncoder
    \/ structEncoderEnter
    \/ structEncoderLoop
    \/ structEncoderNext
    \/ sliceEncoderEnter
    \/ sliceEncoderLoop
    \/ sliceEncoderNext
    \/ mapEncoder

Spec == Init /\ [][Next]_vars

\* ----------------------------------------- typeEncoder, goroutine by goroutine

\* A goroutine enters typeEncoder(t).
typeEncoderCall(p) ==
    /\ gpc[p] = "idle"
    /\ \E t \in Descriptors : gt' = [gt EXCEPT ![p] = t]
    /\ gpc' = [gpc EXCEPT ![p] = "RLock"]
    /\ gf' = [gf EXCEPT ![p] = "nil"]
    /\ UNCHANGED <<gout, rw, encoderCache>>
    /\ UNCHANGED wvars

\* encoderCache.RLock(): waits while a writer holds the lock.
typeEncoderRLock(p) ==
    /\ gpc[p] = "RLock"
    /\ rw.writer = 0
    /\ rw' = [rw EXCEPT !.readers = @ \cup {p}]
    /\ gpc' = [gpc EXCEPT ![p] = "read"]
    /\ UNCHANGED <<gt, gf, gout, encoderCache>>
    /\ UNCHANGED wvars

\* f := encoderCache.m[t]
typeEncoderRead(p) ==
    /\ gpc[p] = "read"
    /\ gf' = [gf EXCEPT ![p] = Lookup(encoderCache, gt[p])]
    /\ gpc' = [gpc EXCEPT ![p] = "RUnlock"]
    /\ UNCHANGED <<gt, gout, rw, encoderCache>>
    /\ UNCHANGED wvars

\* encoderCache.RUnlock()
typeEncoderRUnlock(p) ==
    /\ gpc[p] = "RUnlock"
    /\ rw' = [rw EXCEPT !.readers = @ \ {p}]
    /\ gpc' = [gpc EXCEPT ![p] = "check"]
    /\ UNCHANGED <<gt, gf, gout, encoderCache>>
    /\ UNCHANGED wvars

\* if f != nil { return f, nil }
typeEncoderHit(p) ==
    /\ gpc[p] = "check"
    /\ gf[p] # "nil"
    /\ gout' = [gout EXCEPT ![p] = [f |-> gf[p], err |-> Nil]]
    /\ gpc' = [gpc EXCEPT ![p] = "done"]
    /\ UNCHANGED <<gt, gf, rw, encoderCache>>
    /\ UNCHANGED wvars

\* The mutant of typeEncoderMiss: the insertion is reached without Lock().
typeEncoderMissNoLock(p) ==
    /\ gpc[p] = "check"
    /\ gf[p] = "nil"
    /\ LET r == newTypeEncoder(gt[p])
       IN  IF r.err.kind # "nil"
           THEN /\ gout' = [gout EXCEPT ![p] = [f |-> "nil", err |-> r.err]]
                /\ gpc' = [gpc EXCEPT ![p] = "done"]
                /\ gf' = gf
           ELSE /\ gf' = [gf EXCEPT ![p] = r.f]
                /\ gpc' = [gpc EXCEPT ![p] = "store"]
                /\ gout' = gout
    /\ UNCHANGED <<gt, rw, encoderCache>>
    /\ UNCHANGED wvars

\* f, err := newTypeEncoder(t); if err != nil { return nil, err }
typeEncoderMiss(p) ==
    /\ gpc[p] = "check"
    /\ gf[p] = "nil"
    /\ LET r == newTypeEncoder(gt[p])
       IN  IF r.err.kind # "nil"
           THEN /\ gout' = [gout EXCEPT ![p] = [f |-> "nil", err |-> r.err]]
                /\ gpc' = [gpc EXCEPT ![p] = "done"]
                /\ gf' = gf
           ELSE /\ gf' = [gf EXCEPT ![p] = r.f]
                /\ gpc' = [gpc EXCEPT ![p] = "Lock"]
                /\ gout' = gout
    /\ UNCHANGED <<gt, rw, encoderCache>>
    /\ UNCHANGED wvars

\* encoderCache.Lock(): waits while anyone holds the lock.
typeEncoderLock(p) ==
    /\ gpc[p] = "Lock"
    /\ rw.writer = 0
    /\ rw.readers = {}
    /\ rw' = [rw EXCEPT !.writer = p]
    /\ gpc' = [gpc EXCEPT ![p] = "store"]
    /\ UNCHANGED <<gt, gf, gout, encoderCache>>
    /\ UNCHANGED wvars

\* if encoderCache.m == nil { make }; encoderCache.m[t] = f
typeEncoderStore(p) ==
    /\ gpc[p] = "store"
    /\ encoderCache' = Store(encoderCache, gt[p], gf[p])
    /\ gpc' = [gpc EXCEPT ![p] = "Unlock"]
    /\ UNCHANGED <<gt, gf, gout, rw>>
    /\ UNCHANGED wvars

\* encoderCache.Unlock(); return f, nil
typeEncoderUnlock(p) ==
    /\ gpc[p] = "Unlock"
    /\ rw' = [rw EXCEPT !.writer = 0]
    /\ gout' = [gout EXCEPT ![p] = [f |-> gf[p], err |-> Nil]]
    /\ gpc' = [gpc EXCEPT ![p] = "done"]
    /\ UNCHANGED <<gt, gf, encoderCache>>
    /\ UNCHANGED wvars

\* The caller has the outcome and goes on; it may call again.
typeEncoderResume(p) ==
    /\ gpc[p] = "done"
    /\ gpc' = [gpc EXCEPT ![p] = "idle"]
    /\ UNCHANGED <<gt, gf, gout, rw, encoderCache>>
    /\ UNCHANGED wvars

NextCache ==
    \E p \in Procs :
        \/ typeEncoderCall(p)
        \/ typeEncoderRLock(p)
        \/ typeEncoderRead(p)
        \/ typeEncoderRUnlock(p)
        \/ typeEncoderHit(p)
        \/ typeEncoderMiss(p)
        \/ typeEncoderLock(p)
        \/ typeEncoderStore(p)
        \/ typeEncoderUnlock(p)
        \/ typeEncoderResume(p)

SpecCache == Init /\ [][NextCache]_vars

\* ============================================================== the claims

Frames == 1 .. Len(stack)

IsGrid(f) == f.fn \in {"structEncoder", "sliceEncoder"}

InLoop(f) == f.at \in {"loop", "wait"}

\* The sub-regions made under container g, in the order made.
CellsOf(g) == SelectSeq([j \in 1 .. Len(groups) |-> j], LAMBDA j : groups[j].parent = g)

\* The top frame is a grid encoder at one of its return statements.
Returning(k) ==
    /\ k = Len(stack)
    /\ pc = "running"
    /\ \/ stack[k].at = "loop" /\ ~(stack[k].i < stack[k].n)
       \/ stack[k].at = "wait" /\ ret.kind # "nil"

\* ---- C1

\* The (key, value) slot s (1 or 2) of a synthetic paired record.
Slot(rec, s) == << rec.fields[2 * s - 1].val.elem, rec.fields[2 * s].val.elem >>

\* The frame above k is sliceEncoder as mapEncoder has just called it.
HandedOn(k) ==
    /\ stack[k].fn = "mapEncoder"
    /\ stack[k].at = "ret"
    /\ k < Len(stack)
    /\ stack[k + 1].fn = "sliceEncoder"
    /\ stack[k + 1].at = "call"

\* C1: for a mapping of m entries mapEncoder hands the Sequence composite
\* exactly ceil(m/2) paired records, every entry sits in exactly one (key,
\* value) slot, for odd m the last record's second pair is unset, and for
\* m = 0 nothing is handed on at all.
C1_MapPairing ==
    \A k \in Frames :
        HandedOn(k) =>
            LET es   == stack[k].v.entries
                m    == Len(es)
                recs == stack[k + 1].v.elems
            IN  /\ m > 0
                /\ Len(recs) = (m + 1) \div 2
                /\ \A j \in 1 .. m :
                      Cardinality({ js \in (1 .. Len(recs)) \X {1, 2} :
                                      Slot(recs[js[1]], js[2]) = es[j] }) = 1
                /\ m % 2 = 1 => Slot(recs[Len(recs)], 2) = << Invalid, Invalid >>

\* ---- C2

\* C2: a value that carries no readable data comes back from the walk as an
\* InvalidValue error value; the call never ends in a panic carrying it.
C2_InvalidValueIsReturned ==
    pc = "panicked" => out.val.kind # "InvalidValueError"

\* ---- C3

IsIndirection(f) == f.fn \in {"ifaceEncoder", "ptrEncoder"}

\* v.Elem() of an indirection.
Elem(v) == IF v.kind = "ptr" THEN Deref(v) ELSE v.elem

\* C3: an indirection encoder on an unset value draws nothing and returns
\* success (so the call does not panic while its frame is there); on a set
\* value it hands the contained value to the walker in its own region, with
\* its own size and no group made.
C3_Indirection ==
    \A k \in Frames :
        IsIndirection(stack[k]) =>
            IF Elem(stack[k].v).kind = "invalid"
            THEN pc # "panicked"
            ELSE k < Len(stack) =>
                    /\ stack[k + 1].e = stack[k].e
                    /\ stack[k + 1].v = Elem(stack[k].v)

\* ---- C4

\* The bits of |v|.
Magnitude(b) == IF IsNeg(b) THEN Negate(b) ELSE b

\* The grid cell (column, row) a rectangle's centre lies in.
CellOfRect(r, step) == << (r.x + r.w \div 2) \div step, (r.y + r.h \div 2) \div step >>

DrawnCells(step) == { CellOfRect(draws[j], step) \o << draws[j].fill >> : j \in 1 .. Len(draws) }

\* C4: Marshal of a signed integer v draws one cell per set bit of |v| and
\* no other, bit i at column 7 - (i mod 8), row 7 - (i div 8) of the 8x8
\* grid, black for v >= 0 and red for v < 0.
C4_IntGrid ==
    (pc = "returned" /\ out.kind = "bytes" /\ arg.i.kind = "int") =>
        LET b    == arg.i.bits
            fill == IF IsNeg(b) THEN "red" ELSE "black"
        IN  /\ Len(draws) = Cardinality(Magnitude(b))
            /\ DrawnCells(arg.size \div GridDiv)
                 = { << 7 - (i % 8), 7 - (i \div 8), fill >> : i \in Magnitude(b) }

\* ---- C5

\* C5: Marshal of an unsigned byte b draws exactly one black bar for each set
\* bit of b among the bit positions 0..7, in a slot of its own, and no bar
\* for a clear bit.
C5_OneBarPerSetBit ==
    (pc = "returned" /\ out.kind = "bytes" /\ arg.i.kind = "uint8") =>
        LET set == { i \in 0 .. 7 : (arg.i.u \div Pow2(i)) % 2 = 1 }
        IN  /\ Len(draws) = Cardinality(set)
            /\ Cardinality(DrawnCells(arg.size \div GridDiv)) = Cardinality(set)
            /\ \A j \in 1 .. Len(draws) : draws[j].fill = "black"

\* ---- C6

IsStruct(f) == f.fn = "structEncoder"

\* C6 as claimed: the child count of a record is the number of its exported
\* fields, and an unexported field is never handed to the walker.
C6_OnlyPublicFields ==
    \A k \in Frames :
        (IsStruct(stack[k]) /\ InLoop(stack[k])) =>
            /\ stack[k].n = Len(SelectSeq(stack[k].v.fields, LAMBDA f : f.exported))
            /\ (stack[k].at = "wait" /\ k < Len(stack)) =>
                   stack[k].v.fields[stack[k].i + 1].exported

\* C6 as amended: structEncoder walks every declared field, exported or not,
\* in declaration order: the child count is the number of declared fields,
\* and the field handed to the walker in turn i is field i, in the i-th
\* sub-region made, whether or not it is exported.
C6_AllFieldsRendered ==
    \A k \in Frames :
        (IsStruct(stack[k]) /\ InLoop(stack[k])) =>
            LET f     == stack[k]
                cells == CellsOf(f.g)
            IN  /\ f.n = Len(f.v.fields)
                /\ f.i <= f.n
                /\ f.at = "wait" => f.i < f.n /\ Len(cells) = f.i + 1
                /\ (f.at = "wait" /\ k < Len(stack)) =>
                       /\ stack[k + 1].v = f.v.fields[f.i + 1].val
                       /\ stack[k + 1].e.group = cells[f.i + 1]

\* An unexported field of a record has been handed to the walker and drawn:
\* its intEncoder frame has put a cell into the field's sub-region.
C6_Witness ==
    \E k \in Frames :
        /\ IsStruct(stack[k]) /\ stack[k].at = "wait" /\ k < Len(stack)
        /\ ~stack[k].v.fields[stack[k].i + 1].exported
        /\ stack[k].i = 3
        /\ stack[k + 1].fn = "intEncoder"
        /\ \E j \in 1 .. Len(draws) : draws[j].group = stack[k + 1].e.group

\* ---- C7

\* C7 as claimed: a Record or Sequence of n >= 1 children has made exactly n
\* sub-regions by the time it returns.
C7_ExactlyNCells ==
    \A k \in Frames :
        (IsGrid(stack[k]) /\ InLoop(stack[k]) /\ Returning(k)) =>
            Len(CellsOf(stack[k].g)) = stack[k].n

\* C7 as amended: a Record or Sequence of n >= 1 children uses width =
\* ceil(sqrt(n)); the sub-regions it has made are at every moment those of
\* its first children, child j (zero-based) in cell (j mod width, j div
\* width) with column and row below width, pairwise distinct, all of side
\* S/width, each child encoded with the full side S; all n are made when the
\* loop runs to its end, and fewer only when a child's encoding failed.  With
\* n = 0 it makes no group and goes straight to its return.
C7_GridLayout ==
    \A k \in Frames :
        IsGrid(stack[k]) =>
            LET f     == stack[k]
                n     == Len(IF IsStruct(f) THEN f.v.fields ELSE f.v.elems)
                w     == f.width
                S     == f.e.size
                cells == CellsOf(f.g)
            IN  IF ~InLoop(f) THEN f.g = 0
                ELSE /\ n >= 1 /\ f.n = n
                     /\ w * w >= n /\ (w - 1) * (w - 1) < n
                     /\ Len(cells) = IF f.at = "loop" THEN f.i ELSE f.i + 1
                     /\ Len(cells) <= n
                     /\ (f.at = "loop" /\ Returning(k)) => Len(cells) = n
                     /\ \A j \in 1 .. Len(cells) :
                           LET c   == groups[cells[j]]
                               col == (j - 1) % w
                               row == (j - 1) \div w
                           IN  /\ col < w /\ row < w
                               /\ c.tx = Frac(col * S, w)
                               /\ c.ty = Frac(row * S, w)
                               /\ c.scale = Frac(1, w)
                     /\ \A a, b \in 1 .. Len(cells) :
                           a # b => << groups[cells[a]].tx, groups[cells[a]].ty >>
                                      # << groups[cells[b]].tx, groups[cells[b]].ty >>
                     /\ (f.at = "wait" /\ k < Len(stack)) =>
                           /\ stack[k + 1].e.size = S
                           /\ stack[k + 1].e.group = cells[Len(cells)]

\* A sequence of 5 children has run its loop to the end: 5 cells on a grid of
\* width 3, the last one in the second row.
C7_Witness ==
    \E k \in Frames :
        /\ stack[k].fn = "sliceEncoder" /\ stack[k].at = "loop" /\ Returning(k)
        /\ stack[k].n = 5 /\ stack[k].width = 3
        /\ Len(CellsOf(stack[k].g)) = 5
        /\ groups[CellsOf(stack[k].g)[5]].ty.num > 0

\* ---- C8

Supported ==
    IntKinds \cup FloatKinds \cup {"uint8", "bool", "string", "struct", "slice", "map", "interface", "ptr"}

\* The values directly inside v.
Parts(v) ==
    CASE v.kind = "struct"    -> { v.fields[j].val : j \in 1 .. Len(v.fields) }
      [] v.kind = "slice"     -> { v.elems[j] : j \in 1 .. Len(v.elems) }
      [] v.kind = "map"       -> { v.entries[j][2] : j \in 1 .. Len(v.entries) }
      [] v.kind = "interface" -> { v.elem }
      [] v.kind = "ptr"       -> { Deref(v) }
      [] OTHER                -> {}

RECURSIVE HasUnsupported(_, _)
\* v holds a value of an unsupported shape at depth d or less.
HasUnsupported(v, d) ==
    \/ v.kind \notin Supported \cup {"invalid"}
    \/ d > 0 /\ \E c \in Parts(v) : HasUnsupported(c, d - 1)

\* C8: Marshal returns a document only when size > 0; with size <= 0 it
\* returns InvalidSize with no lookup, no cache insertion and no drawing;
\* and a value holding an unsupported shape at any depth ends in the
\* UnsupportedType error being returned.
C8_MarshalOutcome ==
    pc \in {"returned", "panicked", "overflow"} =>
        /\ out.kind = "bytes" => arg.size > 0
        /\ arg.size <= 0 =>
              /\ out = [kind |-> "error", err |-> InvalidSizeError]
              /\ groups = << >> /\ draws = << >> /\ encoderCache = CacheZero
        /\ (arg.size > 0 /\ HasUnsupported(arg.i, StackLimit)) =>
              /\ pc = "returned"
              /\ out.kind = "error"
              /\ out.err.kind = "UnsupportedTypeError"

\* ---- C10

\* C10: the recursion of every Marshal call with size > 0 comes back to its
\* caller, also for a value reachable from itself: it never goes on until the
\* goroutine's stack is exhausted.
C10_WalkReturns ==
    pc # "overflow"

\* ---- C9

\* What typeEncoder(t) returns when run alone on the cache as it is.
Sequential(t) ==
    [f |-> typeEncoderSeq(encoderCache, t).f, err |-> typeEncoderSeq(encoderCache, t).err]

C9_State ==
    /\ rw.writer # 0 => rw.readers = {}
    /\ \A p \in Procs : gpc[p] \in {"store", "Unlock"} => rw.writer = p
    /\ \A p \in Procs : gpc[p] \in {"read", "RUnlock"} => p \in rw.readers /\ rw.writer = 0
    /\ \A t \in DOMAIN encoderCache.m :
          /\ newTypeEncoder(t).err = Nil
          /\ encoderCache.m[t] = newTypeEncoder(t).f
    /\ \A p \in Procs : gpc[p] = "done" => gout[p] = Sequential(gt[p])

C9_Step ==
    /\ encoderCache' # encoderCache =>
          /\ rw.writer # 0 /\ rw.readers = {}
          /\ \E p \in Procs : rw.writer = p /\ gpc[p] = "store"
    /\ \A t \in DOMAIN encoderCache.m :
          t \in DOMAIN encoderCache'.m /\ encoderCache'.m[t] = encoderCache.m[t]

\* C9: under every interleaving of typeEncoder calls the cache is written
\* only by the goroutine holding the exclusive lock, with no reader inside;
\* every entry maps its descriptor to the strategy newTypeEncoder gives it, so
\* no descriptor that fails with UnsupportedType is ever in it; an entry is
\* never removed or changed; and every call returns what it would return run
\* alone.
C9_CacheDiscipline == [](C9_State) /\ [][C9_Step]_vars

\* Two goroutines missed on the same descriptor and both resolved it: one has
\* inserted and returned, the other holds the lock and is about to insert the
\* same entry again.
C9_Witness ==
    \E p, q \in Procs :
        /\ p # q
        /\ gt[p] = gt[q]
        /\ gpc[p] = "done" /\ gout[p].f = "sliceEncoder"
        /\ gpc[q] = "store" /\ gf[q] = "sliceEncoder"
        /\ gt[p] \in DOMAIN encoderCache.m

====
